---------------------------- MODULE Spec2Model ----------------------------
(***************************************************************************)
(* Model of vasu-chaturvedi/extract: the two-level bounded worker-pool     *)
(* dispatch of main / runProceduresForSol (runExtractionForSol), the log   *)
(* consumer writeProcLogs, the mutex-guarded procedure summary, and the    *)
(* spool-file consolidation consolidateSpoolFiles.                         *)
(*                                                                         *)
(* Three specifications share the module:                                  *)
(*   Spec          the orchestrator: main, one goroutine per SOL, its      *)
(*                 worker pool, the log consumer;                          *)
(*   SpecSummary   the summary update applied to a set of tuples in every  *)
(*                 order;                                                  *)
(*   SpecCons      consolidateSpoolFiles on a spool directory.             *)
(***************************************************************************)
EXTENDS Naturals, Integers, Sequences, FiniteSets, Bags, TLC

\* ------------------------------------------------------------------ bounds
\* Dispatch configurations: up to MaxSols SOLs, MaxProcs procedures and a
\* concurrency limit up to MaxConcurrency, on a clock with readings 0..MaxTime.
MaxSols == 2
MaxProcs == 1
MaxConcurrency == 2
MaxTime == 1
\* Pool configurations: one SOL whose procedure list has as many entries as
\* the pool has workers, or up to MaxExtraProcs more, and a backend that
\* fails at most MaxFail calls.
MaxExtraProcs == 1
MaxFail == 1
\* SpecSummary: up to MaxUpdates Outcomes of one procedure, with start and
\* end readings in 0..MaxStamp.
MaxUpdates == 3
MaxStamp == 2
\* SpecCons: spool files of up to MaxSpoolSols SOLs per procedure, and up to
\* MaxIOFail failing file operations in one consolidation.
MaxSpoolSols == 2
MaxIOFail == 1
\* SpecExtract: queries with up to MaxRows rows.
MaxRows == 2
\* SpecFormat: rows of up to MaxCols values of up to MaxValLen characters.
MaxCols == 2
MaxValLen == 1

\* ------------------------------------------------------- program constants
\* numWorkers := 4
numWorkers == 4
\* procLogCh := make(chan ProcLog, 1000)
LogChCap == 1000

VARIABLES
    \* --- configuration read at start-up
    concurrency,   \* appCfg.Concurrency, the capacity of sem
    procedures,    \* runCfg.Procedures
    sols,          \* the SOL ids read by readSols
    maxOpenConns,  \* the limit given to db.SetMaxOpenConns
    parallel,      \* the Run...Parallel flag of the selected mode
    \* --- environment of the run
    horizon,       \* the last instant the clock reaches during the run
    maxFail,       \* how many executor calls the backend fails at most
    \* --- main goroutine
    nextSol,       \* index into sols of the for loop of main
    mainPc,        \* "loop" | "close" | "summary" | "consolidate" | "returned"
    sem,           \* number of tokens held in the channel sem
    wg,            \* counter of main's sync.WaitGroup
    completed,     \* the progress counter
    exit,          \* "running" | "normal" (main returned) | "fatal" (log.Fatalf)
    \* --- per-SOL goroutine and its pool (runProceduresForSol)
    entPc,         \* sol -> "idle" | "feed" | "wait" | "release" | "wgdone" | "done"
    feedIdx,       \* sol -> index of the next procedure the feeder sends on procCh
    pool,          \* sol -> bag of the local states of the live worker goroutines
    poolWg,        \* sol -> counter of runProceduresForSol's sync.WaitGroup
    \* --- log channel and its consumer (writeProcLogs)
    procLogCh,     \* the buffered contents of the channel
    logClosed,     \* close(procLogCh) has happened
    logPc,         \* "create" | "range" | "done"
    csvBuf,        \* bag of the records handed to csv.Writer and not flushed yet
    logFile,       \* bag of the records in the log file
    panicked,      \* a send on the closed log channel has happened
    \* --- summary
    procSummary,   \* map[string]ProcSummary: procedure -> aggregate
    summaryFile,   \* the summary file: whether it was written, and the rows read
    \* --- time
    now,           \* the latest reading of time.Now()
    \* --- history, for stating the claims
    outcomes,      \* bag of every ProcLog a worker has built
    callErr,       \* <<sol, proc>> -> what the executor call returned
    \* --- SpecSummary: summary updates in every order
    sumTuples,     \* the set of ProcLogs of one procedure to apply
    sumTrace,      \* the ProcLogs applied so far, in the order of application
    sumAgg,        \* the summary map after applying sumTrace
    \* --- SpecCons: consolidateSpoolFiles
    cProcs,        \* procConfig.Procedures
    fs,            \* the spool output directory: file name -> content
    fs0,           \* history: the directory when consolidateSpoolFiles began
    cPc,           \* position in consolidateSpoolFiles
    spoolFilesMap, \* procedure -> list of its spool file names
    cTodo,         \* procedures the range over spoolFilesMap has yet to visit
    cProc,         \* proc of the current iteration
    cFiles,        \* files of the current iteration
    cIdx,          \* i of the inner loop (1-based)
    totalBytes,    \* totalBytes of the current iteration
    cClosed,       \* history: procedures whose fOut.Close() succeeded
    ioFails,       \* history: file operations that have failed so far
    cFailed,       \* history: procedures whose output met a failing create,
                   \*          copy, newline write or close in this call
    cPass,         \* which call of consolidateSpoolFiles this is: 1 or 2
    \* --- SpecExtract: the calls of extractData of a run in mode E
    xProcs,        \* runCfg.Procedures
    xSols,         \* the SOL ids
    xTodo,         \* the pairs <<proc, solID>> not yet executed
    xCall,         \* the call in progress: its pair, position, the rows the
                   \* query has left, the steps that failed, the value returned
    xWriters,      \* history: spool file name -> the pairs whose call created it
    \* --- SpecFormat: formatRow
    fFormat,       \* cfg.Format
    fDelim,        \* cfg.Delimiter
    fValues,       \* values, the row's column values
    fPc,           \* "input" | "formatted"
    fOut           \* the string formatRow returned

orchVars == <<concurrency, procedures, sols, maxOpenConns, parallel, horizon, maxFail, nextSol, mainPc, sem, wg, completed,
              exit, entPc, feedIdx, pool, poolWg, procLogCh, logClosed, logPc,
              csvBuf, logFile, panicked, procSummary, summaryFile, now,
              outcomes, callErr>>

cfgVars == <<concurrency, procedures, sols, maxOpenConns, parallel, horizon,
             maxFail>>

sumVars == <<sumTuples, sumTrace, sumAgg>>

consVars == <<cProcs, fs, fs0, cPc, spoolFilesMap, cTodo, cProc, cFiles, cIdx,
              totalBytes, cClosed, ioFails, cFailed, cPass>>

extVars == <<xProcs, xSols, xTodo, xCall, xWriters>>

fmtVars == <<fFormat, fDelim, fValues, fPc, fOut>>

vars == <<orchVars, sumVars, consVars, extVars, fmtVars>>

\* ---------------------------------------------------------------- helpers
\* The elements of a sequence.
Range(f) == {f[i] : i \in DOMAIN f}

\* Sum of f[x] over the finite set S.
RECURSIVE SumOver(_, _)
SumOver(f, S) ==
    IF S = {} THEN 0
    ELSE LET x == CHOOSE y \in S : TRUE IN f[x] + SumOver(f, S \ {x})

\* A bag holding n copies of x.
Copies(x, n) == IF n = 0 THEN EmptyBag ELSE [y \in {x} |-> n]

\* The bag B with one copy of x replaced by one copy of y.
BagReplace(B, x, y) == (B (-) SetToBag({x})) (+) SetToBag({y})

\* -------------------------------------------------------------- data types
\* error values of callProcedure / extractData: nil or an error
NilErr == "nil"

Errs == {NilErr, "ORA-06550"}

\* Mutant of StatusOf: the error branch is lost.
StatusAlwaysSuccess(err) == "SUCCESS"

\* if err != nil { plog.Status = "FAIL" } else { plog.Status = "SUCCESS" }
StatusOf(err) == IF err # NilErr THEN "FAIL" ELSE "SUCCESS"

\* plog.ErrorDetails = err.Error(), left "" when err is nil
ErrorDetailsOf(err) == IF err # NilErr THEN err ELSE ""

\* plog := ProcLog{...} with its status and error details
NewProcLog(solID, proc, start, end, err) ==
    [SolID |-> solID, Procedure |-> proc, StartTime |-> start, EndTime |-> end,
     ExecutionTime |-> end - start, Status |-> StatusOf(err),
     ErrorDetails |-> ErrorDetailsOf(err)]

NoLog == [SolID |-> 0, Procedure |-> 0, StartTime |-> 0, EndTime |-> 0,
          ExecutionTime |-> 0, Status |-> "", ErrorDetails |-> ""]

\* The local state of one worker goroutine of a pool: its position, the
\* procedure it received, its start reading and the ProcLog it built.
Worker(pc, proc, start, plog) ==
    [pc |-> pc, proc |-> proc, start |-> start, plog |-> plog]

IdleWorker == Worker("idle", 0, 0, NoLog)

\* Mutant of NewPool: the loop starts one worker too many (i <= numWorkers).
NewPoolOneMore == Copies(IdleWorker, numWorkers + 1)

\* for i := 0; i < numWorkers; i++ { wg.Add(1); go func() {...}() }
NewPool == Copies(IdleWorker, numWorkers)

\* Mutant of UpdateSummary: the status of the latest Outcome replaces the
\* aggregate's.
UpdateSummaryLastStatus(summary, plog) ==
    LET proc == plog.Procedure IN
    IF proc \notin DOMAIN summary
    THEN summary @@ (proc :> [Procedure |-> proc, StartTime |-> plog.StartTime,
                              EndTime |-> plog.EndTime, Status |-> plog.Status])
    ELSE LET s == summary[proc] IN
         [summary EXCEPT ![proc] =
            [Procedure |-> s.Procedure,
             StartTime |-> IF plog.StartTime < s.StartTime
                           THEN plog.StartTime ELSE s.StartTime,
             EndTime   |-> IF plog.EndTime > s.EndTime
                           THEN plog.EndTime ELSE s.EndTime,
             Status    |-> plog.Status]]

\* Mutant of UpdateSummary: the start of the latest Outcome replaces the
\* aggregate's without the comparison.
UpdateSummaryLastStart(summary, plog) ==
    LET proc == plog.Procedure IN
    IF proc \notin DOMAIN summary
    THEN summary @@ (proc :> [Procedure |-> proc, StartTime |-> plog.StartTime,
                              EndTime |-> plog.EndTime, Status |-> plog.Status])
    ELSE LET s == summary[proc] IN
         [summary EXCEPT ![proc] =
            [Procedure |-> s.Procedure,
             StartTime |-> plog.StartTime,
             EndTime   |-> IF plog.EndTime > s.EndTime
                           THEN plog.EndTime ELSE s.EndTime,
             Status    |-> IF s.Status # "FAIL" /\ plog.Status = "FAIL"
                           THEN "FAIL" ELSE s.Status]]

\* The summary update a worker makes between mu.Lock() and mu.Unlock().
UpdateSummary(summary, plog) ==
    LET proc == plog.Procedure IN
    IF proc \notin DOMAIN summary
    THEN summary @@ (proc :> [Procedure |-> proc, StartTime |-> plog.StartTime,
                              EndTime |-> plog.EndTime, Status |-> plog.Status])
    ELSE LET s == summary[proc] IN
         [summary EXCEPT ![proc] =
            [Procedure |-> s.Procedure,
             StartTime |-> IF plog.StartTime < s.StartTime
                           THEN plog.StartTime ELSE s.StartTime,
             EndTime   |-> IF plog.EndTime > s.EndTime
                           THEN plog.EndTime ELSE s.EndTime,
             Status    |-> IF s.Status # "FAIL" /\ plog.Status = "FAIL"
                           THEN "FAIL" ELSE s.Status]]

\* The executor calls that have failed so far.
Failures ==
    LET failed == {o \in BagToSet(outcomes) : o.Status = "FAIL"}
    IN  SumOver([o \in failed |-> CopiesIn(o, outcomes)], failed)

\* What an executor call may return: nil, or an error while the backend
\* has failures left.
Returns == IF Failures < maxFail THEN Errs ELSE {NilErr}

\* What time.Now() may return: a reading not before the latest one (the
\* clock is monotonic), up to the last instant of the run.
Readings == now..horizon

\* Mutant of SemHasRoom: the semaphore is made one slot too large.
SemHasRoomOneMore == sem <= concurrency

\* sem <- struct{}{} proceeds only while the channel holds fewer tokens
\* than its capacity appCfg.Concurrency.
SemHasRoom == sem < concurrency

\* ------------------------------------------------------------ initial state
\* The variables of the orchestrator while another specification runs.
OrchIdle ==
    /\ concurrency = 1 /\ procedures = <<>> /\ sols = <<>>
    /\ maxOpenConns = 0 /\ parallel = TRUE
    /\ horizon = 0 /\ maxFail = 0
    /\ nextSol = 1 /\ mainPc = "off" /\ sem = 0 /\ wg = 0 /\ completed = 0
    /\ exit = "off"
    /\ entPc = <<>> /\ feedIdx = <<>> /\ pool = <<>> /\ poolWg = <<>>
    /\ procLogCh = <<>> /\ logClosed = FALSE /\ logPc = "off"
    /\ csvBuf = EmptyBag /\ logFile = EmptyBag /\ panicked = FALSE
    /\ procSummary = <<>>
    /\ summaryFile = [written |-> FALSE, rows |-> <<>>]
    /\ now = 0 /\ outcomes = EmptyBag /\ callErr = <<>>

\* The variables of SpecSummary while another specification runs.
SumIdle == sumTuples = {} /\ sumTrace = <<>> /\ sumAgg = <<>>

\* The variables of SpecCons while another specification runs.
ConsIdle ==
    /\ cProcs = <<>> /\ fs = <<>> /\ fs0 = <<>> /\ cPc = "off"
    /\ spoolFilesMap = <<>> /\ cTodo = {} /\ cProc = <<>> /\ cFiles = <<>>
    /\ cIdx = 0 /\ totalBytes = 0 /\ cClosed = {} /\ ioFails = 0
    /\ cFailed = {} /\ cPass = 0

\* The variables of SpecExtract while another specification runs.
ExtIdle ==
    /\ xProcs = <<>> /\ xSols = <<>> /\ xTodo = {}
    /\ xCall = [pair |-> <<>>, pc |-> "off", rows |-> 0, failed |-> {},
                ret |-> ""]
    /\ xWriters = <<>>

\* The variables of SpecFormat while another specification runs.
FmtIdle ==
    /\ fFormat = "" /\ fDelim = <<>> /\ fValues = <<>> /\ fPc = "off"
    /\ fOut = <<>>

\* A configuration: n is appCfg.Concurrency as configured, par the
\* Run...Parallel flag of the mode, k the number of procedures, m the number
\* of SOLs, t the clock's last instant and f the backend's failures.
DispatchConfigs ==
    [n : 1..MaxConcurrency, par : {TRUE}, k : 0..MaxProcs, m : 1..MaxSols,
     t : {MaxTime}, f : {MaxProcs * MaxSols}]

PoolConfigs ==
    [n : {1}, par : {TRUE}, k : numWorkers..(numWorkers + MaxExtraProcs),
     m : {1}, t : {0}, f : {MaxFail}]

\* Parallel execution disabled in the run configuration, with a configured
\* concurrency above one.
SequentialConfigs ==
    [n : 2..MaxConcurrency, par : {FALSE}, k : 0..(MaxProcs + 1), m : {1},
     t : {0}, f : {0}]

Configs == DispatchConfigs \cup PoolConfigs \cup SequentialConfigs

\* Mutant of PoolLimit: the number of procedures is left out of the product.
PoolLimitConcurrencyOnly(n, procCount) == n

\* db.SetMaxOpenConns(appCfg.Concurrency * procCount)
PoolLimit(n, procCount) == n * procCount

\* if ... !runCfg.Run...Parallel { appCfg.Concurrency = 1 }, which main
\* executes after the pool limit was set
DispatchConcurrency(n, par) == IF par THEN n ELSE 1


\* The configurations a run starts from: the concurrency limit, the SOL ids
\* and the procedure list (distinct names, identified by their position).
InitFrom(configs) ==
    /\ \E c \in configs :
        /\ maxOpenConns = PoolLimit(c.n, c.k)
        /\ parallel = c.par
        /\ concurrency = DispatchConcurrency(c.n, c.par)
        /\ procedures = [i \in 1..c.k |-> i]
        /\ sols = [i \in 1..c.m |-> i]
        /\ horizon = c.t
        /\ maxFail = c.f
    /\ nextSol = 1
    /\ mainPc = "loop"
    /\ sem = 0
    /\ wg = 0
    /\ completed = 0
    /\ exit = "running"
    /\ entPc = [s \in DOMAIN sols |-> "idle"]
    /\ feedIdx = [s \in DOMAIN sols |-> 1]
    /\ pool = [s \in DOMAIN sols |-> EmptyBag]
    /\ poolWg = [s \in DOMAIN sols |-> 0]
    /\ procLogCh = <<>>
    /\ logClosed = FALSE
    /\ logPc = "create"
    /\ csvBuf = EmptyBag
    /\ logFile = EmptyBag
    /\ panicked = FALSE
    /\ procSummary = <<>>
    /\ summaryFile = [written |-> FALSE, rows |-> <<>>]
    /\ now = 0
    /\ outcomes = EmptyBag
    /\ callErr = <<>>
    /\ SumIdle
    /\ ConsIdle
    /\ ExtIdle
    /\ FmtIdle

Init == InitFrom(Configs)

\* ------------------------------------------------------------------- main
\* for _, sol := range sols { wg.Add(1); sem <- struct{}{}; go func(solID) }:
\* the goroutine started calls runProceduresForSol, which makes procCh and
\* starts its numWorkers workers.
Spawn ==
    /\ exit = "running" /\ mainPc = "loop"
    /\ nextSol <= Len(sols)
    /\ SemHasRoom
    /\ LET s == sols[nextSol] IN
        /\ wg' = wg + 1
        /\ sem' = sem + 1
        /\ entPc' = [entPc EXCEPT ![s] = "feed"]
        /\ feedIdx' = [feedIdx EXCEPT ![s] = 1]
        /\ pool' = [pool EXCEPT ![s] = NewPool]
        /\ poolWg' = [poolWg EXCEPT ![s] = BagCardinality(NewPool)]
    /\ nextSol' = nextSol + 1
    /\ UNCHANGED <<cfgVars, sumVars, consVars, extVars, fmtVars, mainPc, completed, exit,
                   procLogCh, logClosed, logPc, csvBuf, logFile, panicked,
                   procSummary, summaryFile, now, outcomes, callErr>>

\* Mutant of WaitReturns: main does not wait for the SOL goroutines.
WaitReturnsAtOnce == TRUE

\* wg.Wait() of main returns once the counter is zero.
WaitReturns == wg = 0

\* The for loop over sols has ended and wg.Wait() returns.
WaitAll ==
    /\ exit = "running" /\ mainPc = "loop"
    /\ nextSol > Len(sols)
    /\ WaitReturns
    /\ mainPc' = "close"
    /\ UNCHANGED <<cfgVars, sumVars, consVars, extVars, fmtVars, nextSol, sem, wg, completed,
                   exit, entPc, feedIdx, pool, poolWg, procLogCh, logClosed,
                   logPc, csvBuf, logFile, panicked, procSummary, summaryFile,
                   now, outcomes, callErr>>

\* close(procLogCh)
CloseLogCh ==
    /\ exit = "running" /\ mainPc = "close"
    /\ logClosed' = TRUE
    /\ mainPc' = "summary"
    /\ UNCHANGED <<cfgVars, sumVars, consVars, extVars, fmtVars, nextSol, sem, wg, completed,
                   exit, entPc, feedIdx, pool, poolWg, procLogCh, logPc, csvBuf,
                   logFile, panicked, procSummary, summaryFile, now, outcomes,
                   callErr>>

\* writeProcedureSummary(path, procSummary): reads the map without the
\* mutex; when os.Create fails it logs and returns without writing.
WriteSummary ==
    /\ exit = "running" /\ mainPc = "summary"
    /\ \E created \in BOOLEAN :
         summaryFile' = IF created THEN [written |-> TRUE, rows |-> procSummary]
                        ELSE summaryFile
    /\ mainPc' = "consolidate"
    /\ UNCHANGED <<cfgVars, sumVars, consVars, extVars, fmtVars, nextSol, sem, wg, completed,
                   exit, entPc, feedIdx, pool, poolWg, procLogCh, logClosed,
                   logPc, csvBuf, logFile, panicked, procSummary, now, outcomes,
                   callErr>>

\* consolidateSpoolFiles(&runCfg) (its file system is SpecCons's), the final
\* log line and the return of main, which ends the process and with it every
\* goroutine still running.
MainReturn ==
    /\ exit = "running" /\ mainPc = "consolidate"
    /\ mainPc' = "returned"
    /\ exit' = "normal"
    /\ UNCHANGED <<cfgVars, sumVars, consVars, extVars, fmtVars, nextSol, sem, wg, completed,
                   entPc, feedIdx, pool, poolWg, procLogCh, logClosed, logPc,
                   csvBuf, logFile, panicked, procSummary, summaryFile, now,
                   outcomes, callErr>>

\* ------------------------------------------- runProceduresForSol, the feeder
\* Mutant of FeedDone: the feeder stops one procedure short.
FeedDoneOneShort(s) == feedIdx[s] >= Len(procedures)

\* for _, proc := range procConfig.Procedures has sent every procedure.
FeedDone(s) == feedIdx[s] > Len(procedures)

\* procCh <- proc meets `for proc := range procCh` of an idle worker (procCh
\* is unbuffered); the worker then reads start := time.Now() and enters the
\* executor call.
Receive(s) ==
    /\ exit = "running" /\ entPc[s] = "feed"
    /\ ~FeedDone(s)
    /\ BagIn(IdleWorker, pool[s])
    /\ \E t \in Readings :
        /\ now' = t
        /\ pool' = [pool EXCEPT ![s] =
                      BagReplace(@, IdleWorker,
                                 Worker("calling", procedures[feedIdx[s]], t, NoLog))]
    /\ feedIdx' = [feedIdx EXCEPT ![s] = @ + 1]
    /\ UNCHANGED <<cfgVars, sumVars, consVars, extVars, fmtVars, nextSol, mainPc, sem, wg,
                   completed, exit, entPc, poolWg, procLogCh, logClosed, logPc,
                   csvBuf, logFile, panicked, procSummary, summaryFile,
                   outcomes, callErr>>

\* close(procCh), after the last procedure was handed over
CloseProcCh(s) ==
    /\ exit = "running" /\ entPc[s] = "feed"
    /\ FeedDone(s)
    /\ entPc' = [entPc EXCEPT ![s] = "wait"]
    /\ UNCHANGED <<cfgVars, sumVars, consVars, extVars, fmtVars, nextSol, mainPc, sem, wg,
                   completed, exit, feedIdx, pool, poolWg, procLogCh, logClosed,
                   logPc, csvBuf, logFile, panicked, procSummary, summaryFile,
                   now, outcomes, callErr>>

\* A worker's range over the closed, empty procCh ends: defer wg.Done().
WorkerExit(s) ==
    /\ exit = "running" /\ entPc[s] = "wait"
    /\ BagIn(IdleWorker, pool[s])
    /\ pool' = [pool EXCEPT ![s] = @ (-) SetToBag({IdleWorker})]
    /\ poolWg' = [poolWg EXCEPT ![s] = @ - 1]
    /\ UNCHANGED <<cfgVars, sumVars, consVars, extVars, fmtVars, nextSol, mainPc, sem, wg,
                   completed, exit, entPc, feedIdx, procLogCh, logClosed, logPc,
                   csvBuf, logFile, panicked, procSummary, summaryFile, now,
                   outcomes, callErr>>

\* wg.Wait() of the pool returns and with it runProceduresForSol; the
\* goroutine then counts the SOL as completed (mu.Lock; completed++; mu.Unlock).
PoolReturn(s) ==
    /\ exit = "running" /\ entPc[s] = "wait"
    /\ poolWg[s] = 0
    /\ entPc' = [entPc EXCEPT ![s] = "release"]
    /\ completed' = completed + 1
    /\ UNCHANGED <<cfgVars, sumVars, consVars, extVars, fmtVars, nextSol, mainPc, sem, wg,
                   exit, feedIdx, pool, poolWg, procLogCh, logClosed, logPc,
                   csvBuf, logFile, panicked, procSummary, summaryFile, now,
                   outcomes, callErr>>

\* Mutant of Release: the goroutine ends without giving its slot back.
ReleaseForgotten(s) ==
    /\ exit = "running" /\ entPc[s] = "release"
    /\ entPc' = [entPc EXCEPT ![s] = "wgdone"]
    /\ UNCHANGED <<cfgVars, sumVars, consVars, extVars, fmtVars, nextSol, mainPc, sem, wg,
                   completed, exit, feedIdx, pool, poolWg, procLogCh, logClosed,
                   logPc, csvBuf, logFile, panicked, procSummary, summaryFile,
                   now, outcomes, callErr>>

\* defer func() { <-sem }()
Release(s) ==
    /\ exit = "running" /\ entPc[s] = "release"
    /\ sem > 0
    /\ sem' = sem - 1
    /\ entPc' = [entPc EXCEPT ![s] = "wgdone"]
    /\ UNCHANGED <<cfgVars, sumVars, consVars, extVars, fmtVars, nextSol, mainPc, wg, completed,
                   exit, feedIdx, pool, poolWg, procLogCh, logClosed, logPc,
                   csvBuf, logFile, panicked, procSummary, summaryFile, now,
                   outcomes, callErr>>

\* defer wg.Done()
WgDone(s) ==
    /\ exit = "running" /\ entPc[s] = "wgdone"
    /\ wg' = wg - 1
    /\ entPc' = [entPc EXCEPT ![s] = "done"]
    /\ UNCHANGED <<cfgVars, sumVars, consVars, extVars, fmtVars, nextSol, mainPc, sem, completed,
                   exit, feedIdx, pool, poolWg, procLogCh, logClosed, logPc,
                   csvBuf, logFile, panicked, procSummary, summaryFile, now,
                   outcomes, callErr>>

\* ------------------------------------------------------------- the workers
\* callProcedure / extractData returns err; end := time.Now(); plog is built.
CallReturn(s) ==
    /\ exit = "running"
    /\ \E w \in BagToSet(pool[s]) : \E err \in Returns : \E t \in Readings :
        /\ w.pc = "calling"
        /\ now' = t
        /\ LET plog == NewProcLog(s, w.proc, w.start, t, err) IN
            /\ pool' = [pool EXCEPT ![s] =
                          BagReplace(@, w, Worker("send", w.proc, w.start, plog))]
            /\ outcomes' = outcomes (+) SetToBag({plog})
            /\ callErr' = (<<s, w.proc>> :> err) @@ callErr
    /\ UNCHANGED <<cfgVars, sumVars, consVars, extVars, fmtVars, nextSol, mainPc, sem, wg,
                   completed, exit, entPc, feedIdx, poolWg, procLogCh, logClosed,
                   logPc, csvBuf, logFile, panicked, procSummary, summaryFile>>

\* logCh <- plog: blocks while the buffer is full, panics on a closed channel.
SendLog(s) ==
    /\ exit = "running"
    /\ \E w \in BagToSet(pool[s]) :
        /\ w.pc = "send"
        /\ IF logClosed
           THEN /\ panicked' = TRUE
                /\ exit' = "panic"
                /\ UNCHANGED <<pool, procLogCh>>
           ELSE /\ Len(procLogCh) < LogChCap
                /\ procLogCh' = Append(procLogCh, w.plog)
                /\ pool' = [pool EXCEPT ![s] =
                              BagReplace(@, w, Worker("update", w.proc, w.start, w.plog))]
                /\ UNCHANGED <<panicked, exit>>
    /\ UNCHANGED <<cfgVars, sumVars, consVars, extVars, fmtVars, nextSol, mainPc, sem, wg,
                   completed, entPc, feedIdx, poolWg, logClosed, logPc, csvBuf,
                   logFile, procSummary, summaryFile, now, outcomes, callErr>>

\* mu.Lock(); ...; summary[proc] = s; mu.Unlock(): one step, the mutex makes
\* the critical sections of the workers of all SOLs mutually exclusive.
Summarize(s) ==
    /\ exit = "running"
    /\ \E w \in BagToSet(pool[s]) :
        /\ w.pc = "update"
        /\ procSummary' = UpdateSummary(procSummary, w.plog)
        /\ pool' = [pool EXCEPT ![s] = BagReplace(@, w, IdleWorker)]
    /\ UNCHANGED <<cfgVars, sumVars, consVars, extVars, fmtVars, nextSol, mainPc, sem, wg,
                   completed, exit, entPc, feedIdx, poolWg, procLogCh, logClosed,
                   logPc, csvBuf, logFile, panicked, summaryFile, now, outcomes,
                   callErr>>

\* ------------------------------------------------- writeProcLogs, the consumer
\* The CSV record of a ProcLog: empty error details are written as "-".
LogRecord(plog) ==
    [plog EXCEPT !.ErrorDetails = IF @ = "" THEN "-" ELSE @]

\* os.Create(path): on failure log.Fatalf ends the process. (The header row
\* written next is no Outcome record and is left out of csvBuf.)
LogCreate ==
    /\ exit = "running" /\ logPc = "create"
    /\ \E created \in BOOLEAN :
         IF created
         THEN /\ logPc' = "range"
              /\ csvBuf' = csvBuf
              /\ exit' = exit
         ELSE /\ exit' = "fatal"
              /\ UNCHANGED <<logPc, csvBuf>>
    /\ UNCHANGED <<cfgVars, sumVars, consVars, extVars, fmtVars, nextSol, mainPc, sem, wg,
                   completed, entPc, feedIdx, pool, poolWg, procLogCh, logClosed,
                   logFile, panicked, procSummary, summaryFile, now, outcomes,
                   callErr>>

\* for plog := range logCh { ...; writer.Write(record) }
LogWrite ==
    /\ exit = "running" /\ logPc = "range"
    /\ procLogCh # <<>>
    /\ csvBuf' = csvBuf (+) SetToBag({LogRecord(Head(procLogCh))})
    /\ procLogCh' = Tail(procLogCh)
    /\ UNCHANGED <<cfgVars, sumVars, consVars, extVars, fmtVars, nextSol, mainPc, sem, wg,
                   completed, exit, entPc, feedIdx, pool, poolWg, logClosed,
                   logPc, logFile, panicked, procSummary, summaryFile, now,
                   outcomes, callErr>>

\* The range ends on the closed, drained channel; the deferred
\* writer.Flush() and file.Close() put the buffered records in the file.
\* writer.Write only fills the writer's buffer (the records of a run of
\* this size fit in it), so that a failing write to the file shows at the
\* Flush: its error is never read (no writer.Error()), and the records stay
\* unwritten.
LogFinish ==
    /\ exit = "running" /\ logPc = "range"
    /\ procLogCh = <<>> /\ logClosed
    /\ \E flushed \in BOOLEAN :
        /\ logFile' = IF flushed THEN logFile (+) csvBuf ELSE logFile
        /\ csvBuf' = IF flushed THEN EmptyBag ELSE csvBuf
    /\ logPc' = "done"
    /\ UNCHANGED <<cfgVars, sumVars, consVars, extVars, fmtVars, nextSol, mainPc, sem, wg,
                   completed, exit, entPc, feedIdx, pool, poolWg, procLogCh,
                   logClosed, panicked, procSummary, summaryFile, now, outcomes,
                   callErr>>

\* ---------------------------------------------------------- specification
Next ==
    \/ Spawn
    \/ WaitAll
    \/ CloseLogCh
    \/ WriteSummary
    \/ MainReturn
    \/ \E s \in DOMAIN sols : Receive(s)
    \/ \E s \in DOMAIN sols : CloseProcCh(s)
    \/ \E s \in DOMAIN sols : WorkerExit(s)
    \/ \E s \in DOMAIN sols : PoolReturn(s)
    \/ \E s \in DOMAIN sols : Release(s)
    \/ \E s \in DOMAIN sols : WgDone(s)
    \/ \E s \in DOMAIN sols : CallReturn(s)
    \/ \E s \in DOMAIN sols : SendLog(s)
    \/ \E s \in DOMAIN sols : Summarize(s)
    \/ LogCreate
    \/ LogWrite
    \/ LogFinish

Spec == Init /\ [][Next]_vars

\* ---------------------------------------------- the run under fair scheduling
\* Configurations for the runs checked under fairness: every combination of
\* concurrency, SOLs and procedures of the dispatch bounds, and the
\* procedure lists as long as the pool and longer, on a clock that stands.
LiveConfigs ==
    [n : 1..MaxConcurrency, par : {TRUE}, k : 0..MaxProcs, m : 1..MaxSols,
     t : {0}, f : {MaxFail}]
    \cup [n : {1}, par : {TRUE}, k : numWorkers..(numWorkers + MaxExtraProcs),
          m : {1}, t : {0}, f : {0}]

LiveInit == InitFrom(LiveConfigs)

\* The Go scheduler runs every goroutine that can take a step, and every
\* call of the executor returns: each step that stays possible is taken.
Fairness ==
    /\ WF_vars(Spawn)
    /\ WF_vars(WaitAll)
    /\ WF_vars(CloseLogCh)
    /\ WF_vars(WriteSummary)
    /\ WF_vars(MainReturn)
    /\ WF_vars(LogCreate)
    /\ WF_vars(LogWrite)
    /\ WF_vars(LogFinish)
    /\ \A s \in 1..MaxSols :
        /\ WF_vars(s \in DOMAIN sols /\ Receive(s))
        /\ WF_vars(s \in DOMAIN sols /\ CloseProcCh(s))
        /\ WF_vars(s \in DOMAIN sols /\ WorkerExit(s))
        /\ WF_vars(s \in DOMAIN sols /\ PoolReturn(s))
        /\ WF_vars(s \in DOMAIN sols /\ Release(s))
        /\ WF_vars(s \in DOMAIN sols /\ WgDone(s))
        /\ WF_vars(s \in DOMAIN sols /\ CallReturn(s))
        /\ WF_vars(s \in DOMAIN sols /\ SendLog(s))
        /\ WF_vars(s \in DOMAIN sols /\ Summarize(s))

SpecLive == LiveInit /\ [][Next]_vars /\ Fairness

\* ================================================================ claims
\* ------------------------------------------------- derived state functions
SolIds == Range(sols)

ProcNames == Range(procedures)

\* SOLs whose runProceduresForSol has started and not returned.
InFlightEntities == {s \in DOMAIN sols : entPc[s] \in {"feed", "wait"}}

\* SOLs whose goroutine was started and has not yet given its token back.
SlotHolders == {s \in DOMAIN sols : entPc[s] \in {"feed", "wait", "release"}}

\* Workers of SOL s at position pc.
WorkersAt(s, pc) ==
    LET ws == {w \in BagToSet(pool[s]) : w.pc = pc}
    IN  SumOver([w \in ws |-> CopiesIn(w, pool[s])], ws)

\* Executor calls in flight, over all SOLs.
InFlightCalls ==
    SumOver([s \in DOMAIN sols |-> WorkersAt(s, "calling")], DOMAIN sols)

\* Workers that still have an Outcome to build, send or summarize.
BusyWorkers ==
    SumOver([s \in DOMAIN sols |->
               WorkersAt(s, "calling") + WorkersAt(s, "send") + WorkersAt(s, "update")],
            DOMAIN sols)

\* Outcomes built for the pair (s, p).
OutcomesOf(s, p) == {o \in BagToSet(outcomes) : o.SolID = s /\ o.Procedure = p}

OutcomeCount(s, p) ==
    SumOver([o \in OutcomesOf(s, p) |-> CopiesIn(o, outcomes)], OutcomesOf(s, p))

\* The dispatcher's final wait has returned.
DispatcherReturned == mainPc # "loop"

\* C1: at most N entities are in flight in every reachable state, and every
\* entity started and not finished holds one of the N semaphore slots, so
\* that an entity beyond the N-th starts only after a slot was released.
C1_EntityConcurrencyBound ==
    /\ Cardinality(InFlightEntities) <= concurrency
    /\ sem = Cardinality(SlotHolders)
    /\ sem <= concurrency

\* C1 witness: N entities are in flight and main is blocked on the semaphore
\* with a further entity still to start.
C1_Witness ==
    /\ Cardinality(InFlightEntities) = concurrency
    /\ mainPc = "loop" /\ nextSol <= Len(sols)
    /\ ~SemHasRoom

\* C2: no (entity, operation) pair ever has two Outcomes, and once the
\* dispatcher has returned (so also when the run has completed) every pair of
\* the entity list and the operation list has exactly one.
C2_ExactlyOneOutcome ==
    /\ \A o \in BagToSet(outcomes) :
          /\ o.SolID \in SolIds /\ o.Procedure \in ProcNames
          /\ OutcomeCount(o.SolID, o.Procedure) = 1
    /\ DispatcherReturned =>
          \A s \in SolIds : \A p \in ProcNames : OutcomeCount(s, p) = 1

\* C2 witness: a completed run with more operations than workers.
C2_Witness ==
    /\ exit = "normal"
    /\ Len(procedures) > numWorkers
    /\ \A s \in SolIds : \A p \in ProcNames : OutcomeCount(s, p) = 1

\* C3 (as claimed): when the run has ended by main returning, every Outcome
\* built and sent is in the log file exactly once.
C3_AllOutcomesLogged ==
    exit = "normal" =>
        \A o \in BagToSet(outcomes) :
            CopiesIn(LogRecord(o), logFile) = CopiesIn(o, outcomes)

SetMin(S) == CHOOSE x \in S : \A y \in S : x <= y

SetMax(S) == CHOOSE x \in S : \A y \in S : x >= y

\* Outcomes built for procedure p, over all SOLs.
OutcomesOfProc(p) == {o \in BagToSet(outcomes) : o.Procedure = p}

\* The aggregate the Outcomes built so far call for: one entry per executed
\* procedure, with the minimum start, the maximum end, and FAIL if and only
\* if some Outcome of the procedure is FAIL.
ExpectedSummary ==
    [p \in {o.Procedure : o \in BagToSet(outcomes)} |->
        [Procedure |-> p,
         StartTime |-> SetMin({o.StartTime : o \in OutcomesOfProc(p)}),
         EndTime   |-> SetMax({o.EndTime : o \in OutcomesOfProc(p)}),
         Status    |-> IF \E o \in OutcomesOfProc(p) : o.Status = "FAIL"
                       THEN "FAIL" ELSE "SUCCESS"]]

\* C7: from the return of the dispatcher's final wait on, no worker has an
\* Outcome left to build or to apply, the summary map equals the aggregate
\* of the Outcomes of all entities, it has an entry for every configured
\* operation, and the summary file holds exactly that aggregate.
C7_SummaryAtRead ==
    /\ DispatcherReturned =>
          /\ BusyWorkers = 0
          /\ procSummary = ExpectedSummary
          /\ DOMAIN procSummary = ProcNames
    /\ summaryFile.written => summaryFile.rows = ExpectedSummary

\* C7 witness: the summary file was written from Outcomes of one operation
\* for two entities that differ in start, in end and in status.
C7_Witness ==
    /\ summaryFile.written
    /\ \E o1, o2 \in BagToSet(outcomes) :
          /\ o1.Procedure = o2.Procedure /\ o1.SolID # o2.SolID
          /\ o1.StartTime < o2.StartTime /\ o1.EndTime < o2.EndTime
          /\ o1.Status = "FAIL" /\ o2.Status = "SUCCESS"

\* C8: the Outcome of a pair is FAIL with the error's text as detail exactly
\* when the executor call of that pair failed, and SUCCESS without detail
\* otherwise; a failed call never stops the run (no panic, and while the
\* process runs some step can be taken); and once the dispatcher has
\* returned, every pair has its Outcome whatever calls failed.
C8_FailureIsolation ==
    /\ \A o \in BagToSet(outcomes) :
          LET err == callErr[<<o.SolID, o.Procedure>>] IN
          /\ o.Status = (IF err = NilErr THEN "SUCCESS" ELSE "FAIL")
          /\ o.ErrorDetails = (IF err = NilErr THEN "" ELSE err)
    /\ exit # "panic"
    /\ (exit = "running" /\ Failures > 0) => ENABLED Next
    /\ DispatcherReturned =>
          \A s \in SolIds : \A p \in ProcNames : OutcomesOf(s, p) # {}

\* C8 witness: a run of two entities in which every call failed has
\* completed normally.
C8_Witness ==
    /\ exit = "normal"
    /\ Len(sols) > 1 /\ Len(procedures) > 0
    /\ \A s \in SolIds : \A p \in ProcNames :
          \E o \in OutcomesOf(s, p) : o.Status = "FAIL"

\* C13 (as claimed): when the log consumer has failed to persist a record
\* (its run has ended with records left unwritten), the process has been
\* terminated as on a failure to create the file; it does not go on.
C13_LogFailureIsFatal ==
    (logPc = "done" /\ csvBuf # EmptyBag) => exit = "fatal"

\* The smaller of two numbers.
MinOf(a, b) == IF a < b THEN a ELSE b

\* A limit of zero or less given to SetMaxOpenConns means no limit.
PoolUnlimited == maxOpenConns <= 0

RunComplete ==
    /\ DispatcherReturned
    /\ sem = 0 /\ wg = 0
    /\ \A s \in DOMAIN sols :
          entPc[s] = "done" /\ FeedDone(s) /\ pool[s] = EmptyBag /\ poolWg[s] = 0

\* C16: under fair scheduling, with every executor call returning, the run
\* eventually completes, unless the process was ended because the log file
\* could not be created.
C16_RunCompletes == <>(exit = "fatal" \/ RunComplete)

\* C16 witness: a run with more SOLs than semaphore slots has completed.
C16_Witness ==
    /\ RunComplete
    /\ Len(sols) > concurrency /\ Len(procedures) > 0

\* Workers holding a procedure whose Outcome is not yet on the log channel.
UnsentWorkers ==
    SumOver([s \in DOMAIN sols |-> WorkersAt(s, "calling") + WorkersAt(s, "send")],
            DOMAIN sols)

\* C17: the log channel is closed only when the dispatcher's wait has
\* returned and every SOL goroutine with all its workers has ended; no
\* worker ever sends on the closed channel; and when the wait has returned
\* every pair has its Outcome and every Outcome built was sent (it is in the
\* channel, with the consumer, or in the file).
C17_CloseAfterLastSend ==
    /\ logClosed =>
          /\ DispatcherReturned
          /\ \A s \in DOMAIN sols : entPc[s] = "done" /\ pool[s] = EmptyBag
    /\ ~panicked
    /\ DispatcherReturned =>
          /\ UnsentWorkers = 0
          /\ \A s \in SolIds : \A p \in ProcNames : OutcomeCount(s, p) >= 1
          /\ BagCardinality(outcomes) =
                Len(procLogCh) + BagCardinality(csvBuf) + BagCardinality(logFile)

\* C17 witness: the channel was closed with Outcomes of two SOLs still
\* buffered in it.
C17_Witness ==
    /\ logClosed
    /\ \E i, j \in DOMAIN procLogCh : procLogCh[i].SolID # procLogCh[j].SolID

\* C21 (as claimed): when parallel execution is disabled, at most one
\* executor call is in flight in every reachable state.
C21_SequentialOneCall == ~parallel => InFlightCalls <= 1

\* ============================================================ SpecSummary
\* The summary update of the workers (UpdateSummary, one critical section
\* under mu per Outcome) applied to a set of Outcomes of one procedure, in
\* every order.

\* The procedure (ProcLog.Procedure) the Outcomes are of.
SumProc == "PROC_A"

\* The Outcomes a worker can build for SumProc: either status, and
\* start <= end, as end := time.Now() is read after start := time.Now().
SumTuples ==
    {t \in {NewProcLog(0, SumProc, st, en, err) :
               st \in 0..MaxStamp, en \in 0..MaxStamp, err \in Errs} :
        t.StartTime <= t.EndTime}

SumInit ==
    /\ sumTuples \in {S \in SUBSET SumTuples : Cardinality(S) \in 1..MaxUpdates}
    /\ sumTrace = <<>>
    /\ sumAgg = <<>>
    /\ OrchIdle
    /\ ConsIdle
    /\ ExtIdle
    /\ FmtIdle

\* One worker applies its Outcome between mu.Lock() and mu.Unlock().
ApplyUpdate ==
    /\ \E t \in sumTuples \ Range(sumTrace) :
        /\ sumAgg' = UpdateSummary(sumAgg, t)
        /\ sumTrace' = Append(sumTrace, t)
    /\ UNCHANGED <<sumTuples, orchVars, consVars, extVars, fmtVars>>

SumNext == ApplyUpdate

SpecSummary == SumInit /\ [][SumNext]_vars

\* The set S of Outcomes applied to summary in one fixed order.
RECURSIVE ApplyAll(_, _)
ApplyAll(summary, S) ==
    IF S = {} THEN summary
    ELSE LET t == CHOOSE x \in S : TRUE
         IN  ApplyAll(UpdateSummary(summary, t), S \ {t})

\* C5: once a FAIL update has been applied for a procedure, whether first or
\* later, the procedure's aggregate status is FAIL in that and every later
\* state, whatever SUCCESS updates follow.
C5_StickyFailure ==
    \A i \in 1..Len(sumTrace) :
        sumTrace[i].Status = "FAIL" =>
            /\ sumTrace[i].Procedure \in DOMAIN sumAgg
            /\ sumAgg[sumTrace[i].Procedure].Status = "FAIL"

\* C5 witness: the first update was FAIL and two SUCCESS updates followed.
C5_Witness ==
    /\ Len(sumTrace) >= 3
    /\ sumTrace[1].Status = "FAIL"
    /\ sumTrace[2].Status = "SUCCESS" /\ sumTrace[3].Status = "SUCCESS"
    /\ sumAgg[SumProc].Status = "FAIL"

\* C6: whatever the order in which a set of tuples of one operation was
\* applied, the aggregate is the one a fixed order of the same set yields,
\* and it is {earliest start, latest end, FAIL iff some tuple is FAIL}.
C6_OrderIndependent ==
    LET S == Range(sumTrace) IN
    /\ sumAgg = ApplyAll(<<>>, S)
    /\ S # {} =>
        sumAgg[SumProc] =
            [Procedure |-> SumProc,
             StartTime |-> SetMin({t.StartTime : t \in S}),
             EndTime   |-> SetMax({t.EndTime : t \in S}),
             Status    |-> IF \E t \in S : t.Status = "FAIL"
                           THEN "FAIL" ELSE "SUCCESS"]

\* C6 witness: three tuples were applied with the starts decreasing and the
\* ends not in order, a FAIL among them.
C6_Witness ==
    /\ Len(sumTrace) >= 3
    /\ sumTrace[1].StartTime > sumTrace[2].StartTime
    /\ sumTrace[2].StartTime > sumTrace[3].StartTime
    /\ sumTrace[2].EndTime > sumTrace[3].EndTime
    /\ sumTrace[2].Status = "FAIL" /\ sumTrace[3].Status = "SUCCESS"

\* =============================================================== SpecCons
\* consolidateSpoolFiles on the spool output directory. A file name is a
\* sequence of characters, with the extensions ".spool" and ".txt" kept as
\* one element each; a file's content is a sequence of bytes.

\* strings.HasPrefix(name, pre)
HasPrefix(name, pre) ==
    Len(name) >= Len(pre) /\ SubSeq(name, 1, Len(pre)) = pre

\* strings.HasSuffix(name, suf)
HasSuffix(name, suf) ==
    Len(name) >= Len(suf)
    /\ SubSeq(name, Len(name) - Len(suf) + 1, Len(name)) = suf

\* Byte order of the characters used in names: '.' < digits < letters < '_',
\* and ".spool" < ".txt".
CharRank(c) ==
    CASE c = ".spool" -> 1
      [] c = ".txt"   -> 2
      [] c = "1"      -> 3
      [] c = "2"      -> 4
      [] c = "3"      -> 5
      [] c = "A"      -> 6
      [] c = "B"      -> 7
      [] c = "_"      -> 8

\* a < b in the byte-wise order of file names, which os.ReadDir sorts by.
RECURSIVE NameLess(_, _)
NameLess(a, b) ==
    IF a = <<>> THEN b # <<>>
    ELSE IF b = <<>> THEN FALSE
    ELSE IF Head(a) = Head(b) THEN NameLess(Tail(a), Tail(b))
    ELSE CharRank(Head(a)) < CharRank(Head(b))

\* The names of S in the order os.ReadDir returns them.
RECURSIVE SortedNames(_)
SortedNames(S) ==
    IF S = {} THEN <<>>
    ELSE LET m == CHOOSE x \in S : \A y \in S \ {x} : NameLess(x, y)
         IN  <<m>> \o SortedNames(S \ {m})

\* The names of seq[i..] that the test of the inner loop attributes to proc:
\* strings.HasPrefix(name, proc+"_") and a suffix ".txt" or ".spool".
RECURSIVE SelectNames(_, _, _)
SelectNames(seq, proc, i) ==
    IF i > Len(seq) THEN <<>>
    ELSE (IF /\ HasPrefix(seq[i], proc \o <<"_">>)
             /\ (HasSuffix(seq[i], <<".txt">>) \/ HasSuffix(seq[i], <<".spool">>))
          THEN <<seq[i]>> ELSE <<>>)
         \o SelectNames(seq, proc, i + 1)

\* spoolFilesMap as built from the directory listing: for every procedure
\* with a matching file, its matching files in listing order.
BuildSpoolFilesMap(dir, procs) ==
    LET listing == SortedNames(DOMAIN dir)
        matched == {q \in Range(procs) : SelectNames(listing, q, 1) # <<>>}
    IN  [q \in matched |-> SelectNames(listing, q, 1)]

\* fmt.Sprintf("%s_%s.spool", procName, solID), the file extractData creates
SpoolName(proc, solID) == proc \o <<"_">> \o solID \o <<".spool">>

\* filepath.Join(procConfig.SpoolOutputPath, proc+".txt")
OutName(proc) == proc \o <<".txt">>

\* The bytes of a file: byte i of the file first written under name f.
Byte(f, i) == [f |-> f, i |-> i]

NewlineByte == [f |-> <<>>, i |-> 0]

\* What extractData leaves in a spool file: a formatted row and its "\n".
SpoolContent(name) == <<Byte(name, 1), NewlineByte>>

\* The output a previous run left for a procedure.
OldOutput(proc) == <<Byte(OutName(proc), 1)>>

\* The directory dir without the file name.
RemoveFile(dir, name) == [n \in (DOMAIN dir) \ {name} |-> dir[n]]

\* The directory dir with data appended to the file name.
AppendToFile(dir, name, data) == [dir EXCEPT ![name] = @ \o data]

SolTokens == <<"1", "2", "3">>

\* Procedure lists: a single name, two unrelated names, and a name that
\* followed by '_' is a prefix of the other.
ConsProcLists ==
    {<< <<"A">> >>, << <<"A">>, <<"B">> >>, << <<"A">>, <<"A", "_", "B">> >>}

\* The results a file operation may have: success, or failure while the
\* run has failures left.
IOResults == IF ioFails < MaxIOFail THEN BOOLEAN ELSE {TRUE}

\* The directory a run of main in mode E leaves: for every procedure the
\* spool files of the first n SOLs, and the outputs of an earlier run for
\* some of the procedures.
ConsInit ==
    /\ cProcs \in ConsProcLists
    /\ \E n \in 0..MaxSpoolSols : \E olds \in SUBSET Range(cProcs) :
          fs = [f \in {SpoolName(q, <<SolTokens[i]>>) : q \in Range(cProcs), i \in 1..n}
                      \cup {OutName(q) : q \in olds} |->
                  IF HasSuffix(f, <<".spool">>) THEN SpoolContent(f)
                  ELSE OldOutput(SubSeq(f, 1, Len(f) - 1))]
    /\ fs0 = fs
    /\ cPc = "readdir"
    /\ spoolFilesMap = <<>>
    /\ cTodo = {}
    /\ cProc = <<>>
    /\ cFiles = <<>>
    /\ cIdx = 0
    /\ totalBytes = 0
    /\ cClosed = {}
    /\ ioFails = 0
    /\ cFailed = {}
    /\ cPass = 1
    /\ OrchIdle
    /\ SumIdle
    /\ ExtIdle
    /\ FmtIdle

\* files, err := os.ReadDir(...): on an error the function returns it;
\* otherwise spoolFilesMap is built from the listing.
ReadDir ==
    /\ cPc = "readdir"
    /\ \E ok \in IOResults :
        IF ok
        THEN /\ spoolFilesMap' = BuildSpoolFilesMap(fs, cProcs)
             /\ cTodo' = DOMAIN spoolFilesMap'
             /\ cPc' = "range"
             /\ ioFails' = ioFails
        ELSE /\ cPc' = "failed"
             /\ ioFails' = ioFails + 1
             /\ UNCHANGED <<spoolFilesMap, cTodo>>
    /\ UNCHANGED <<cProcs, fs, fs0, cProc, cFiles, cIdx, totalBytes, cClosed,
                   cFailed, cPass,
                   orchVars, sumVars, extVars, fmtVars>>

\* for proc, files := range spoolFilesMap: the next key, in no fixed order.
NextProc ==
    /\ cPc = "range"
    /\ \E q \in cTodo :
        /\ cProc' = q
        /\ cFiles' = spoolFilesMap[q]
        /\ cTodo' = cTodo \ {q}
    /\ cPc' = "create"
    /\ UNCHANGED <<cProcs, fs, fs0, spoolFilesMap, cIdx, totalBytes, cClosed,
                   ioFails, cFailed, cPass,
                   orchVars, sumVars, extVars, fmtVars>>

\* The range is over: return nil.
ConsReturn ==
    /\ cPc = "range"
    /\ cTodo = {}
    /\ cPc' = "done"
    /\ UNCHANGED <<cProcs, fs, fs0, spoolFilesMap, cTodo, cProc, cFiles, cIdx,
                   totalBytes, cClosed, ioFails, cFailed, cPass,
                   orchVars, sumVars, extVars, fmtVars>>

\* fOut, err := os.Create(outFile): creates or truncates the file under the
\* final name; on an error the procedure is skipped.
CreateOut ==
    /\ cPc = "create"
    /\ \E ok \in IOResults :
        IF ok
        THEN /\ fs' = (OutName(cProc) :> <<>>) @@ fs
             /\ cIdx' = 1
             /\ totalBytes' = 0
             /\ cPc' = "open"
             /\ ioFails' = ioFails
             /\ cFailed' = cFailed
        ELSE /\ cPc' = "range"
             /\ ioFails' = ioFails + 1
             /\ cFailed' = cFailed \cup {cProc}
             /\ UNCHANGED <<fs, cIdx, totalBytes>>
    /\ UNCHANGED <<cProcs, fs0, spoolFilesMap, cTodo, cProc, cFiles, cClosed,
                   cPass,
                   orchVars, sumVars, extVars, fmtVars>>

\* fIn, err := os.Open(fpath): fails when the file is gone, and may fail
\* otherwise; on an error the file is skipped.
OpenSpool ==
    /\ cPc = "open"
    /\ cIdx <= Len(cFiles)
    /\ IF cFiles[cIdx] \notin DOMAIN fs
       THEN /\ cIdx' = cIdx + 1
            /\ cPc' = "open"
            /\ ioFails' = ioFails
       ELSE \E ok \in IOResults :
              IF ok
              THEN cPc' = "copy" /\ cIdx' = cIdx /\ ioFails' = ioFails
              ELSE cPc' = "open" /\ cIdx' = cIdx + 1 /\ ioFails' = ioFails + 1
    /\ UNCHANGED <<cProcs, fs, fs0, spoolFilesMap, cTodo, cProc, cFiles,
                   totalBytes, cClosed, cFailed, cPass,
                   orchVars, sumVars, extVars, fmtVars>>

\* n, err := io.Copy(fOut, fIn): the first n bytes reach fOut; the copy
\* succeeds when they are all of the file, and else the file is skipped.
CopySpool ==
    /\ cPc = "copy"
    /\ LET data == fs[cFiles[cIdx]] IN
       \E n \in (IF ioFails < MaxIOFail THEN 0..Len(data) ELSE {Len(data)}) :
        /\ fs' = AppendToFile(fs, OutName(cProc), SubSeq(data, 1, n))
        /\ IF n = Len(data)
           THEN /\ totalBytes' = totalBytes + n
                /\ cPc' = "remove"
                /\ cIdx' = cIdx
                /\ ioFails' = ioFails
                /\ cFailed' = cFailed
           ELSE /\ cIdx' = cIdx + 1
                /\ cPc' = "open"
                /\ totalBytes' = totalBytes
                /\ ioFails' = ioFails + 1
                /\ cFailed' = cFailed \cup {cProc}
    /\ UNCHANGED <<cProcs, fs0, spoolFilesMap, cTodo, cProc, cFiles, cClosed,
                   cPass,
                   orchVars, sumVars, extVars, fmtVars>>

\* err = os.Remove(fpath): the failure is only logged. The newline between
\* files is due when this is not the last file of the list.
RemoveSpool ==
    /\ cPc = "remove"
    /\ \E ok \in IOResults :
        /\ fs' = IF ok THEN RemoveFile(fs, cFiles[cIdx]) ELSE fs
        /\ ioFails' = IF ok THEN ioFails ELSE ioFails + 1
    /\ IF cIdx < Len(cFiles)
       THEN cPc' = "newline" /\ cIdx' = cIdx
       ELSE cPc' = "open" /\ cIdx' = cIdx + 1
    /\ UNCHANGED <<cProcs, fs0, spoolFilesMap, cTodo, cProc, cFiles, totalBytes,
                   cClosed, cFailed, cPass,
                   orchVars, sumVars, extVars, fmtVars>>

\* if i < len(files)-1 { fOut.Write([]byte("\n")) }: the failure is only logged.
WriteNewline ==
    /\ cPc = "newline"
    /\ \E ok \in IOResults :
        /\ fs' = IF ok THEN AppendToFile(fs, OutName(cProc), <<NewlineByte>>) ELSE fs
        /\ ioFails' = IF ok THEN ioFails ELSE ioFails + 1
        /\ cFailed' = IF ok THEN cFailed ELSE cFailed \cup {cProc}
    /\ cIdx' = cIdx + 1
    /\ cPc' = "open"
    /\ UNCHANGED <<cProcs, fs0, spoolFilesMap, cTodo, cProc, cFiles, totalBytes,
                   cClosed, cPass,
                   orchVars, sumVars, extVars, fmtVars>>

\* fOut.Close() after the inner loop: the failure is only logged.
CloseOut ==
    /\ cPc = "open"
    /\ cIdx > Len(cFiles)
    /\ \E ok \in IOResults :
        /\ cClosed' = IF ok THEN cClosed \cup {cProc} ELSE cClosed
        /\ ioFails' = IF ok THEN ioFails ELSE ioFails + 1
        /\ cFailed' = IF ok THEN cFailed ELSE cFailed \cup {cProc}
    /\ cPc' = "range"
    /\ UNCHANGED <<cProcs, fs, fs0, spoolFilesMap, cTodo, cProc, cFiles, cIdx,
                   totalBytes, cPass,
                   orchVars, sumVars, extVars, fmtVars>>

\* The program is run again right after a run whose consolidation met no
\* failing file operation: consolidateSpoolFiles is called a second time on
\* the directory the first call left, no spool file having been added.
Rerun ==
    /\ cPc = "done"
    /\ cPass = 1
    /\ ioFails = 0
    /\ cPass' = 2
    /\ cPc' = "readdir"
    /\ fs0' = fs
    /\ spoolFilesMap' = <<>>
    /\ cTodo' = {}
    /\ cProc' = <<>>
    /\ cFiles' = <<>>
    /\ cIdx' = 0
    /\ totalBytes' = 0
    /\ cClosed' = {}
    /\ cFailed' = {}
    /\ UNCHANGED <<cProcs, fs, ioFails, orchVars, sumVars, extVars, fmtVars>>

ConsNext ==
    \/ ReadDir
    \/ NextProc
    \/ ConsReturn
    \/ CreateOut
    \/ OpenSpool
    \/ CopySpool
    \/ RemoveSpool
    \/ WriteNewline
    \/ CloseOut
    \/ Rerun

SpecCons == ConsInit /\ [][ConsNext]_vars

\* The contents of the files of seq[i..] as they were when the consolidation
\* began, joined with one newline between consecutive files.
RECURSIVE JoinFiles(_, _)
JoinFiles(seq, i) ==
    IF i > Len(seq) THEN <<>>
    ELSE fs0[seq[i]] \o (IF i < Len(seq) THEN <<NewlineByte>> ELSE <<>>)
         \o JoinFiles(seq, i + 1)

\* The spool files of each procedure when the consolidation began.
InitialSpools == BuildSpoolFilesMap(fs0, cProcs)

\* The complete merge of all spool files of procedure q.
CompleteMerge(q) ==
    IF q \in DOMAIN InitialSpools THEN JoinFiles(InitialSpools[q], 1) ELSE <<>>

\* C9 (as claimed): in every state during and after consolidateSpoolFiles,
\* the file under a procedure's final name is absent, or is the previous
\* run's output, or is the complete merge of the procedure's spool files.
C9_NoPartialOutput ==
    \A q \in Range(cProcs) :
        LET out == OutName(q) IN
        \/ out \notin DOMAIN fs
        \/ out \in DOMAIN fs0 /\ fs[out] = fs0[out]
        \/ q \in DOMAIN InitialSpools /\ fs[out] = CompleteMerge(q)

\* C10 (as claimed): a spool file is deleted only when the output of its
\* procedure has been closed successfully and holds, under the final name,
\* the complete merge with the file's bytes.
C10_DeleteAfterOutput ==
    \A f \in (DOMAIN fs0) \ (DOMAIN fs) :
        \E q \in DOMAIN InitialSpools :
            /\ f \in Range(InitialSpools[q])
            /\ q \in cClosed
            /\ OutName(q) \in DOMAIN fs
            /\ fs[OutName(q)] = CompleteMerge(q)


\* C11 (as claimed): a procedure whose output met a failing create, write or
\* close has all its spool files and its earlier output (or the absence of
\* one) as they were when the call began; and when the call has returned
\* after a single failure, every other procedure with spool files has its
\* complete merge.
C11_AbortLeavesUntouched ==
    /\ \A q \in cFailed :
          /\ \A f \in Range(InitialSpools[q]) :
                f \in DOMAIN fs /\ fs[f] = fs0[f]
          /\ IF OutName(q) \in DOMAIN fs0
             THEN OutName(q) \in DOMAIN fs /\ fs[OutName(q)] = fs0[OutName(q)]
             ELSE OutName(q) \notin DOMAIN fs
    /\ (cPc = "done" /\ ioFails = 1 /\ cFailed # {}) =>
          \A q \in (DOMAIN InitialSpools) \ cFailed :
              OutName(q) \in DOMAIN fs /\ fs[OutName(q)] = CompleteMerge(q)

\* C12 (as claimed): during and after a second call that follows a first
\* call without failures, itself meeting none, no error is reported and
\* every output file the first call left is still there with the same bytes.
C12_SecondPassChangesNothing ==
    (cPass = 2 /\ ioFails = 0) =>
        /\ cPc # "failed"
        /\ \A q \in Range(cProcs) :
              OutName(q) \in DOMAIN fs0 =>
                  OutName(q) \in DOMAIN fs /\ fs[OutName(q)] = fs0[OutName(q)]

\* C18 (as claimed): no file is in the spool lists of two procedures, and no
\* procedure's output file is in a spool list.
C18_SpoolSetsDisjoint ==
    /\ \A q1, q2 \in DOMAIN spoolFilesMap :
          q1 # q2 =>
              Range(spoolFilesMap[q1]) \cap Range(spoolFilesMap[q2]) = {}
    /\ \A q \in DOMAIN spoolFilesMap : \A r \in Range(cProcs) :
          OutName(r) \notin Range(spoolFilesMap[q])

\* The spool files extractData wrote for procedure q, as found when the call
\* began, in ascending order of their SOL ids.
RECURSIVE OwnSpoolsFrom(_, _)
OwnSpoolsFrom(q, i) ==
    IF i > Len(SolTokens) THEN <<>>
    ELSE (IF SpoolName(q, <<SolTokens[i]>>) \in DOMAIN fs0
          THEN <<SpoolName(q, <<SolTokens[i]>>)>> ELSE <<>>)
         \o OwnSpoolsFrom(q, i + 1)

\* C19 (as claimed): when a first call has returned without a failing file
\* operation, the output of every procedure that had spool files is the
\* concatenation of its own spool files in ascending SOL-id order, one
\* newline between consecutive files and none after the last.
C19_MergeInEntityOrder ==
    (cPass = 1 /\ cPc = "done" /\ ioFails = 0) =>
        \A q \in Range(cProcs) :
            OwnSpoolsFrom(q, 1) # <<>> =>
                /\ OutName(q) \in DOMAIN fs
                /\ fs[OutName(q)] = JoinFiles(OwnSpoolsFrom(q, 1), 1)

\* ============================================================ SpecExtract
\* The calls extractData(ctx, db, proc, solID, cfg) of a run in mode E, one
\* per pair of a procedure and a SOL id, each taken step by step with the
\* failures its steps can meet.

\* SOL id lists: one id, two ids, and an id that contains '_'.
ExtSolLists ==
    {<< <<"1">> >>, << <<"1">>, <<"2">> >>, << <<"1">>, <<"B", "_", "1">> >>}

\* The state of no call in progress.
NoCall == [pair |-> <<>>, pc |-> "idle", rows |-> 0, failed |-> {}, ret |-> ""]

ExtInit ==
    /\ xProcs \in ConsProcLists
    /\ xSols \in ExtSolLists
    /\ xTodo = Range(xProcs) \X Range(xSols)
    /\ xCall = NoCall
    /\ xWriters = <<>>
    /\ OrchIdle
    /\ SumIdle
    /\ ConsIdle
    /\ FmtIdle

\* The call returns err at the step named step, which failed.
ReturnErr(step) ==
    [xCall EXCEPT !.pc = "returned", !.failed = @ \cup {step},
                  !.ret = "ORA-06550"]

\* A worker calls extractData for a pair; the query will have up to MaxRows
\* rows.
ExtCall ==
    /\ xCall.pc \in {"idle", "returned"}
    /\ \E pr \in xTodo : \E n \in 0..MaxRows :
        /\ xCall' = [pair |-> pr, pc |-> "layout", rows |-> n, failed |-> {},
                     ret |-> ""]
        /\ xTodo' = xTodo \ {pr}
    /\ UNCHANGED <<xProcs, xSols, xWriters, orchVars, sumVars, consVars,
                   fmtVars>>

\* cols, err := readColumnsFromCSV(TemplFile); if err != nil { return err }
ExtLayout ==
    /\ xCall.pc = "layout"
    /\ \E ok \in BOOLEAN :
        xCall' = IF ok THEN [xCall EXCEPT !.pc = "query"] ELSE ReturnErr("layout")
    /\ UNCHANGED <<xProcs, xSols, xTodo, xWriters, orchVars, sumVars, consVars,
                   fmtVars>>

\* rows, err := db.QueryContext(ctx, query, solID); if err != nil { return err }
ExtQuery ==
    /\ xCall.pc = "query"
    /\ \E ok \in BOOLEAN :
        xCall' = IF ok THEN [xCall EXCEPT !.pc = "create"] ELSE ReturnErr("query")
    /\ UNCHANGED <<xProcs, xSols, xTodo, xWriters, orchVars, sumVars, consVars,
                   fmtVars>>

\* f, err := os.Create(tempFile) with tempFile the spool name of the pair:
\* creates the file, or truncates the one of that name.
ExtCreate ==
    /\ xCall.pc = "create"
    /\ \E ok \in BOOLEAN :
        IF ok
        THEN LET name == SpoolName(xCall.pair[1], xCall.pair[2])
                 before == IF name \in DOMAIN xWriters THEN xWriters[name] ELSE {}
             IN  /\ xWriters' = (name :> (before \cup {xCall.pair})) @@ xWriters
                 /\ xCall' = [xCall EXCEPT !.pc = "next"]
        ELSE /\ xCall' = ReturnErr("create")
             /\ xWriters' = xWriters
    /\ UNCHANGED <<xProcs, xSols, xTodo, orchVars, sumVars, consVars,
                   fmtVars>>

\* for rows.Next() {...}; return nil: Next is false when the rows are
\* exhausted and also when fetching the next row fails; rows.Err() is not
\* read, and the function returns nil after the loop in both cases.
ExtNext ==
    /\ xCall.pc = "next"
    /\ \/ /\ xCall.rows > 0
          /\ xCall' = [xCall EXCEPT !.pc = "scan"]
       \/ /\ xCall.rows > 0
          /\ xCall' = [xCall EXCEPT !.pc = "returned", !.ret = NilErr,
                                    !.failed = @ \cup {"iteration"}]
       \/ /\ xCall.rows = 0
          /\ xCall' = [xCall EXCEPT !.pc = "returned", !.ret = NilErr]
    /\ UNCHANGED <<xProcs, xSols, xTodo, xWriters, orchVars, sumVars, consVars,
                   fmtVars>>

\* if err := rows.Scan(scanArgs...); err != nil { return err }
ExtScan ==
    /\ xCall.pc = "scan"
    /\ \E ok \in BOOLEAN :
        xCall' = IF ok THEN [xCall EXCEPT !.pc = "write"] ELSE ReturnErr("scan")
    /\ UNCHANGED <<xProcs, xSols, xTodo, xWriters, orchVars, sumVars, consVars,
                   fmtVars>>

\* f.WriteString(formatRow(cfg, cols, strValues) + "\n"): the results of
\* WriteString are dropped, and the loop goes on to the next row.
ExtWrite ==
    /\ xCall.pc = "write"
    /\ \E ok \in BOOLEAN :
        xCall' = [xCall EXCEPT !.pc = "next", !.rows = @ - 1,
                               !.failed = IF ok THEN @ ELSE @ \cup {"write"}]
    /\ UNCHANGED <<xProcs, xSols, xTodo, xWriters, orchVars, sumVars, consVars,
                   fmtVars>>

ExtStep ==
    \/ ExtCall
    \/ ExtLayout
    \/ ExtQuery
    \/ ExtCreate
    \/ ExtNext
    \/ ExtScan
    \/ ExtWrite

SpecExtract == ExtInit /\ [][ExtStep]_vars

\* C14 (as claimed): when extractData has returned, the Outcome of the pair
\* is FAIL exactly when layout load, query, row scan or iteration, spool
\* creation or a row write failed, and SUCCESS exactly when none did.
C14_ErrorIffStepFailed ==
    xCall.pc = "returned" =>
        (StatusOf(xCall.ret) = "FAIL" <=> xCall.failed # {})

\* C20 (as claimed): every spool file was created by the call of one pair only.
C20_OneWriterPerSpool ==
    \A name \in DOMAIN xWriters : Cardinality(xWriters[name]) <= 1

\* ============================================================= SpecFormat
\* formatRow(cfg, cols, values) applied to a row of column values. A string
\* is a sequence of characters; LF and CR stand for "\n" and "\r".
LF == "LF"

CR == "CR"

\* The characters column values are made of.
ValueChars == {"a", ",", LF, CR}

\* The strings of up to n characters of ValueChars.
StringsUpTo(n) == UNION {[1..l -> ValueChars] : l \in 0..n}

\* The rows of up to n values of up to MaxValLen characters.
RowsUpTo(n) == UNION {[1..l -> StringsUpTo(MaxValLen)] : l \in 0..n}

\* The values of cfg.Delimiter: a comma, a space, a newline, the empty
\* string and a delimiter of two characters.
Delimiters == {<<",">>, <<" ">>, <<LF>>, <<>>, <<",", ",">>}

\* The values of cfg.Format: the two formats and an unknown one.
Formats == {"delimited", "fixed", "csv"}

\* Mutant of Sanitize: only "\n" is replaced.
SanitizeNewlineOnly(str) ==
    [i \in 1..Len(str) |-> IF str[i] = LF THEN " " ELSE str[i]]

\* strings.ReplaceAll(strings.ReplaceAll(s, "\n", " "), "\r", " ")
Sanitize(str) ==
    [i \in 1..Len(str) |-> IF str[i] \in {LF, CR} THEN " " ELSE str[i]]

\* strings.Join(parts[i..], sep)
RECURSIVE JoinFrom(_, _, _)
JoinFrom(parts, sep, i) ==
    IF i > Len(parts) THEN <<>>
    ELSE IF i = Len(parts) THEN parts[i]
    ELSE parts[i] \o sep \o JoinFrom(parts, sep, i + 1)

\* The column layout of a row: column i is i characters wide, the odd
\* columns right-aligned and the even ones left-aligned.
ColsFor(values) ==
    [i \in 1..Len(values) |->
        [Length |-> i, Align |-> IF i % 2 = 1 THEN "right" ELSE "left"]]

\* n spaces.
Spaces(n) == [i \in 1..n |-> " "]

\* One column of the fixed format: the sanitized value cut to col.Length,
\* then padded to it on the left (%*s) or on the right (%-*s).
FixedColumn(col, value) ==
    LET val == Sanitize(value)
        cut == IF Len(val) > col.Length THEN SubSeq(val, 1, col.Length) ELSE val
        pad == Spaces(col.Length - Len(cut))
    IN  IF col.Align = "right" THEN pad \o cut ELSE cut \o pad

\* The columns i.. of the fixed format, concatenated.
RECURSIVE FixedFrom(_, _, _)
FixedFrom(cols, values, i) ==
    IF i > Len(cols) THEN <<>>
    ELSE FixedColumn(cols[i], values[i]) \o FixedFrom(cols, values, i + 1)

\* formatRow: switch cfg.Format
FormatRow(format, delimiter, cols, values) ==
    CASE format = "delimited" ->
            JoinFrom([i \in 1..Len(values) |-> Sanitize(values[i])], delimiter, 1)
      [] format = "fixed" -> FixedFrom(cols, values, 1)
      [] OTHER -> <<>>

FmtInit ==
    /\ fFormat \in Formats
    /\ fDelim \in (IF fFormat = "delimited" THEN Delimiters ELSE {<<",">>})
    /\ fValues \in RowsUpTo(MaxCols)
    /\ fPc = "input"
    /\ fOut = <<>>
    /\ OrchIdle
    /\ SumIdle
    /\ ConsIdle
    /\ ExtIdle

\* extractData formats the row: formatRow(cfg, cols, strValues).
Format ==
    /\ fPc = "input"
    /\ fOut' = FormatRow(fFormat, fDelim, ColsFor(fValues), fValues)
    /\ fPc' = "formatted"
    /\ UNCHANGED <<fFormat, fDelim, fValues, orchVars, sumVars, consVars,
                   extVars>>

FmtNext == Format

SpecFormat == FmtInit /\ [][FmtNext]_vars

\* Whether sep occurs in str at position i.
OccursAt(str, sep, i) ==
    i + Len(sep) - 1 <= Len(str) /\ SubSeq(str, i, i + Len(sep) - 1) = sep

\* strings.Split(str, sep): the pieces of str between the occurrences of sep, found from the left and
\* not overlapping; an empty sep splits after every character.
RECURSIVE SplitOn(_, _)
SplitOn(str, sep) ==
    IF sep = <<>> THEN [i \in 1..Len(str) |-> <<str[i]>>]
    ELSE LET hits == {i \in 1..Len(str) : OccursAt(str, sep, i)} IN
         IF hits = {} THEN <<str>>
         ELSE LET i == CHOOSE h \in hits : \A g \in hits : h <= g
              IN  <<SubSeq(str, 1, i - 1)>>
                  \o SplitOn(SubSeq(str, i + Len(sep), Len(str)), sep)

\* The sanitized values of the row.
SanitizedRow == [i \in 1..Len(fValues) |-> Sanitize(fValues[i])]

\* The pieces of the output between the delimiters.
Parts == SplitOn(fOut, fDelim)

\* The string has no newline and no carriage return.
NoLineBreak(str) == \A i \in 1..Len(str) : str[i] \notin {LF, CR}

\* C22 (as claimed): in delimited mode, for every row and every delimiter,
\* the output has no newline or carriage return, and splitting it on the
\* delimiter yields exactly the sanitized values.
C22_SplitRecoversRow ==
    (fFormat = "delimited" /\ fPc = "formatted") =>
        NoLineBreak(fOut) /\ Parts = SanitizedRow

\* No sanitized value of the row contains a character of the delimiter.
DelimiterFree ==
    \A i \in 1..Len(fValues) : \A j \in 1..Len(fValues[i]) :
        Sanitize(fValues[i])[j] \notin Range(fDelim)

\* C22 (amended): in delimited mode the output has no newline or carriage
\* return when the delimiter has none; and for a row of at least one value
\* and a non-empty delimiter none of whose characters occurs in a sanitized
\* value, splitting the output on the delimiter yields exactly the sanitized
\* values.
C22_SplitRecoversCleanRow ==
    fFormat = "delimited" =>
        /\ (fPc = "formatted" /\ NoLineBreak(fDelim)) => NoLineBreak(fOut)
        /\ (fPc = "formatted" /\ Len(fValues) >= 1 /\ fDelim # <<>> /\ DelimiterFree) =>
              Parts = SanitizedRow

\* C22 witness: a row of two values with a newline and a carriage return in
\* them was formatted with a delimiter they do not contain; the output splits
\* back into the sanitized values.
C22_Witness ==
    /\ fFormat = "delimited" /\ fPc = "formatted"
    /\ Len(fValues) >= 2 /\ fDelim # <<>> /\ DelimiterFree
    /\ \E i, j \in 1..Len(fValues) :
          LF \in Range(fValues[i]) /\ CR \in Range(fValues[j])
    /\ NoLineBreak(fOut)
    /\ Parts = SanitizedRow
    /\ Parts # fValues

=============================================================================
